---- MODULE Spec2Model ----
(***************************************************************************)
(* Robot sensor data visualizer (src/app.py): a Streamlit script.  Every   *)
(* user interaction re-runs main() from the top; the state that survives   *)
(* between runs is st.session_state, the widget values and the two         *)
(* st.cache_data caches.  One action below is one interaction together     *)
(* with the script run(s) it triggers.                                     *)
(*                                                                         *)
(* Representation.  Python None/Some is a sequence of length 0/1.  A       *)
(* Python dict is a function whose domain is its key set.  A path string   *)
(* is kept as the sequence of its '/'-separated segments; Chars gives the  *)
(* code points needed where the code compares strings.  No segment name    *)
(* contains '/'.  The names of the store of Spec are ordinary names: none  *)
(* is a key the tree reserves ('_folders', '_files', '_root_files').  The  *)
(* store of SpecFolders holds one folder that is named '_folders'.         *)
(***************************************************************************)
EXTENDS Integers, Sequences, FiniteSets, TLC

VARIABLES json_files, folder_tree, selected_file, expanded_folders,
          side, viz_mode, slider, cache, view,
          t_data, t_frame, t_out, c_out

vars == <<json_files, folder_tree, selected_file, expanded_folders,
          side, viz_mode, slider, cache, view, t_data, t_frame, t_out, c_out>>

nav_vars == <<json_files, folder_tree, selected_file, expanded_folders,
              side, viz_mode, slider, cache, view>>

harness_vars == <<t_data, t_frame, t_out, c_out>>

\* ---------------------------------------------------------------- bounds

\* Largest number of records one listing holds.
MaxListing == 3

\* Frame count of the well-formed recordings of the store.
NumFrames == 2

\* ------------------------------------------------------- generic helpers

None == <<>>

Some(v) == <<v>>

Range(s) == {s[i] : i \in 1..Len(s)}

Front(s) == SubSeq(s, 1, Len(s) - 1)

\* dict.get(key, default)
DictGet(d, k, default) == IF k \in DOMAIN d THEN d[k] ELSE default

\* d[k] = v on a dict
DictPut(d, k, v) == [x \in (DOMAIN d) \cup {k} |-> IF x = k THEN v ELSE d[x]]

\* ------------------------------------------------- strings and their order

\* Code points of the characters of the names the store uses.
Chars(s) ==
    CASE s = "a"      -> <<97>>
      [] s = "b"      -> <<98>>
      [] s = "c"      -> <<99>>
      [] s = "r.json" -> <<114, 46, 106, 115, 111, 110>>
      [] s = "x.json" -> <<120, 46, 106, 115, 111, 110>>
      [] s = "y.json" -> <<121, 46, 106, 115, 111, 110>>
      [] s = "_files"   -> <<95, 102, 105, 108, 101, 115>>
      [] s = "_folders" -> <<95, 102, 111, 108, 100, 101, 114, 115>>

RECURSIVE JoinPath(_)
\* f"{parent_path}/{file_name}": the code points of the whole path string
JoinPath(parts) ==
    IF Len(parts) = 1 THEN Chars(parts[1])
    ELSE JoinPath(Front(parts)) \o <<47>> \o Chars(parts[Len(parts)])

RECURSIVE StrLess(_, _)
\* Python's str  a < b  on code point sequences
StrLess(a, b) ==
    IF a = <<>> THEN b # <<>>
    ELSE IF b = <<>> THEN FALSE
    ELSE IF a[1] # b[1] THEN a[1] < b[1]
    ELSE StrLess(Tail(a), Tail(b))

\* -------------------------------------------------------- the file store

FileRecord(id, path) == [id |-> id, name |-> path[Len(path)], path |-> path]

\* The JSON files the Drive folder can hold.  f2 has two parents, so it is
\* listed once under each.
AllRecords ==
    { FileRecord("f1", <<"r.json">>),
      FileRecord("f2", <<"a", "b", "x.json">>),
      FileRecord("f3", <<"a", "c", "y.json">>),
      FileRecord("f2", <<"a", "x.json">>) }

FileIds == {r.id : r \in AllRecords}

Listings == {S \in SUBSET AllRecords : Cardinality(S) <= MaxListing}

RECURSIVE SortByPathWrongKey(_)
SortByPathWrongKey(S) ==
    IF S = {} THEN <<>>
    ELSE LET m == CHOOSE r \in S :
                    \A q \in S \ {r} :
                        \/ StrLess(Chars(r.name), Chars(q.name))
                        \/ /\ r.name = q.name
                           /\ StrLess(JoinPath(r.path), JoinPath(q.path))
         IN  <<m>> \o SortByPathWrongKey(S \ {m})

RECURSIVE SortByPath(_)
\* json_files.sort(key=lambda x: x['path'])
SortByPath(S) ==
    IF S = {} THEN <<>>
    ELSE LET m == CHOOSE r \in S :
                    \A q \in S \ {r} : StrLess(JoinPath(r.path), JoinPath(q.path))
         IN  <<m>> \o SortByPath(S \ {m})

\* list_json_files_from_gdrive on a folder holding the records S
list_json_files_from_gdrive(S) == SortByPath(S)

\* ------------------------------------------------------- the folder tree

NewNode == [_folders |-> <<>>, _files |-> <<>>]

RECURSIVE DescendAlwaysNew(_, _, _, _)
DescendAlwaysNew(current, parts, parent_folder, file_info) ==
    IF parts = <<>>
    THEN LET c == DictPut(current, parent_folder, NewNode)
         IN  [c EXCEPT ![parent_folder]._files = Append(@, file_info)]
    ELSE LET part == Head(parts)
             c == DictPut(current, part, NewNode)
         IN  [c EXCEPT ![part]._folders =
                     DescendAlwaysNew(@, Tail(parts), parent_folder, file_info)]

RECURSIVE Descend(_, _, _, _)
\* The walk over path_parts[:-1] (parts: the segments still to walk) and,
\* when it is done, the append under parent_folder = path_parts[-2].
Descend(current, parts, parent_folder, file_info) ==
    IF parts = <<>>
    THEN LET c == IF parent_folder \notin DOMAIN current
                  THEN DictPut(current, parent_folder, NewNode)
                  ELSE current
         IN  [c EXCEPT ![parent_folder]._files = Append(@, file_info)]
    ELSE LET part == Head(parts)
             c == IF part \notin DOMAIN current
                  THEN DictPut(current, part, NewNode)
                  ELSE current
         IN  [c EXCEPT ![part]._folders =
                     Descend(@, Tail(parts), parent_folder, file_info)]

\* One iteration of the loop over json_files.
InsertFile(tree, file_info) ==
    LET path_parts == file_info.path
    IN  IF Len(path_parts) > 1
        THEN Descend(tree, Front(path_parts),
                     path_parts[Len(path_parts) - 1], file_info)
        ELSE DictPut(tree, "_root_files",
                     Append(DictGet(tree, "_root_files", <<>>), file_info))

RECURSIVE BuildTree(_, _)
BuildTree(tree, files) ==
    IF files = <<>> THEN tree
    ELSE BuildTree(InsertFile(tree, Head(files)), Tail(files))

\* folder_tree = {} followed by the loop
build_folder_tree(files) == BuildTree(<<>>, files)

\* ---------------------------------------------------- recorded documents

Sides == {"left", "right"}

Sensors == <<"finger_0", "finger_1", "finger_2", "palm">>

\* A rectangular array of f frames of width w (a list of f lists).
Mat(f, w, base) == [i \in 1..f |-> [j \in 1..w |-> base + 10 * i + j]]

\* One arm's fields of a document: wrist pose of fw frames, joint states of
\* fj frames, and the four tactile sites with their [frames, sensors].
Arm(s, fw, fj, t0, t1, t2, tp) ==
    [k \in {s \o "_wrist_pose", s \o "_joint_states", s \o "_finger_0_tactile",
            s \o "_finger_1_tactile", s \o "_finger_2_tactile", s \o "_palm_tactile"} |->
        CASE k = s \o "_wrist_pose"       -> Mat(fw, 7, 100)
          [] k = s \o "_joint_states"     -> Mat(fj, 2, 200)
          [] k = s \o "_finger_0_tactile" -> Mat(t0[1], t0[2], 300)
          [] k = s \o "_finger_1_tactile" -> Mat(t1[1], t1[2], 400)
          [] k = s \o "_finger_2_tactile" -> Mat(t2[1], t2[2], 500)
          [] k = s \o "_palm_tactile"     -> Mat(tp[1], tp[2], 600)]

\* The keys of d, less those in gone.
Without(d, gone) == [k \in (DOMAIN d) \ gone |-> d[k]]

\* Well-formed on both arms; finger_2 is absent (S = 0); the right arm was
\* recorded one frame longer than the left.
DocGood ==
    Arm("left", NumFrames, NumFrames, <<NumFrames, 2>>, <<NumFrames, 1>>,
        <<NumFrames, 0>>, <<NumFrames, 2>>)
    @@ Arm("right", NumFrames + 1, NumFrames + 1, <<NumFrames + 1, 2>>,
           <<NumFrames + 1, 1>>, <<NumFrames + 1, 0>>, <<NumFrames + 1, 2>>)

\* Left arm: joint states one frame longer and finger_0 one frame shorter than
\* the wrist pose; the palm sensor is absent.  Right arm: the wrist pose was
\* recorded empty ([]) beside one frame of everything else.
DocMismatch ==
    Arm("left", NumFrames, NumFrames + 1, <<NumFrames - 1, 2>>, <<NumFrames, 1>>,
        <<NumFrames, 2>>, <<NumFrames, 0>>)
    @@ Arm("right", 0, 1, <<1, 2>>, <<1, 1>>, <<1, 1>>, <<1, 2>>)

\* Left arm lacks the finger_1 field; right arm lacks the wrist pose.
DocMissing ==
    Without(DocGood, {"left_finger_1_tactile", "right_wrist_pose"})

\* What the store holds under each file id.
RemoteContent(id) ==
    CASE id = "f1" -> DocGood
      [] id = "f2" -> DocMismatch
      [] id = "f3" -> DocMissing

\* ------------------------------------------------------ render functions

Raise(exc) == [kind |-> "raise", exc |-> exc]

Raised(d) == d.kind = "raise"

NotRendered == [kind |-> "not_rendered"]

Unavailable == [kind |-> "unavailable"]

RECURSIVE SeqMin(_)
SeqMin(s) == IF Len(s) = 1 THEN s[1]
             ELSE LET m == SeqMin(Tail(s)) IN IF s[1] < m THEN s[1] ELSE m

RECURSIVE SeqMax(_)
SeqMax(s) == IF Len(s) = 1 THEN s[1]
             ELSE LET m == SeqMax(Tail(s)) IN IF s[1] > m THEN s[1] ELSE m

\* frame_idx: None, or Some(i) with i counted from 0 as in the code
plot_wrist_pose(data, s, frame_idx) ==
    LET key == s \o "_wrist_pose" IN
    IF key \notin DOMAIN data THEN Raise("KeyError")
    ELSE LET poses == data[key] IN
         IF frame_idx # None
         THEN IF frame_idx[1] >= Len(poses) THEN Raise("IndexError")
              ELSE LET pose == poses[frame_idx[1] + 1] IN
                   IF Len(pose) < 7 THEN Raise("IndexError")
                   ELSE [kind |-> "FrameMetrics", frame |-> frame_idx[1],
                         position |-> SubSeq(pose, 1, 3),
                         quaternion |-> SubSeq(pose, 4, 7)]
         ELSE IF Len(poses) = 0 THEN Raise("IndexError")
              ELSE IF Len(poses[1]) < 7 THEN Raise("IndexError")
              ELSE [kind |-> "TimeSeriesLines",
                    series |-> [i \in 1..7 |-> [f \in 1..Len(poses) |-> poses[f][i]]]]

plot_joint_states(data, s, frame_idx) ==
    LET key == s \o "_joint_states" IN
    IF key \notin DOMAIN data THEN Raise("KeyError")
    ELSE LET joints == data[key] IN
         IF frame_idx # None
         THEN IF frame_idx[1] >= Len(joints) THEN Raise("IndexError")
              ELSE LET joint == joints[frame_idx[1] + 1] IN
                   IF Len(joint) = 0 THEN Raise("StreamlitAPIException")
                   ELSE [kind |-> "FrameMetrics", frame |-> frame_idx[1],
                         values |-> joint]
         ELSE IF Len(joints) = 0 THEN Raise("IndexError")
              ELSE [kind |-> "TimeSeriesLines",
                    series |-> [i \in 1..Len(joints[1]) |->
                                   [f \in 1..Len(joints) |-> joints[f][i]]]]

\* The guard of plot_tactile_data: len(tactile) == 0 or len(tactile[0]) == 0
TactileEmptyRowsOnly(tactile) == Len(tactile) = 0

TactileEmpty(tactile) ==
    IF Len(tactile) = 0 THEN TRUE ELSE Len(tactile[1]) = 0

plot_tactile_data(data, s, sensor_type, frame_idx) ==
    LET sensor_key == s \o "_" \o sensor_type \o "_tactile" IN
    IF sensor_key \notin DOMAIN data THEN Raise("KeyError")
    ELSE LET tactile == data[sensor_key] IN
         IF TactileEmpty(tactile) THEN Unavailable
         ELSE IF frame_idx # None
         THEN IF frame_idx[1] >= Len(tactile) THEN Raise("IndexError")
              ELSE LET tactile_frame == tactile[frame_idx[1] + 1] IN
                   IF Len(tactile_frame) = 0 THEN Raise("ValueError")
                   ELSE [kind |-> "Heatmap1D", frame |-> frame_idx[1],
                         z |-> tactile_frame,
                         min |-> SeqMin(tactile_frame),
                         max |-> SeqMax(tactile_frame)]
         ELSE [kind |-> "HeatmapGrid",
               z |-> [i \in 1..Len(tactile[1]) |->
                         [f \in 1..Len(tactile) |-> tactile[f][i]]],
               frames |-> Len(tactile), sensors |-> Len(tactile[1]),
               points |-> Len(tactile) * Len(tactile[1])]

\* One pass of the loop of plot_all_tactile_comparison: the cell of
\* sensors[idx] (idx counted from 0).
ComparisonCell(data, s, idx, frame_idx) ==
    LET sensor_key == s \o "_" \o Sensors[idx + 1] \o "_tactile" IN
    IF sensor_key \notin DOMAIN data THEN Raise("KeyError")
    ELSE LET tactile == data[sensor_key] IN
         IF ~TactileEmpty(tactile)
         THEN IF frame_idx >= Len(tactile) THEN Raise("IndexError")
              ELSE [kind |-> "Heatmap1D", z |-> tactile[frame_idx + 1],
                    showscale |-> (idx = 3)]
         ELSE [kind |-> "empty", showscale |-> FALSE]

\* The figure of the four cells, unless drawing one of them raised.
ComparisonFigure(cells) ==
    IF \E i \in 1..4 : Raised(cells[i])
    THEN cells[CHOOSE i \in 1..4 : Raised(cells[i]) /\ \A j \in 1..(i - 1) : ~Raised(cells[j])]
    ELSE [kind |-> "CompositeGrid", cells |-> cells]

\* frame_idx is an index here, never None (the caller checks)
plot_all_tactile_comparison(data, s, frame_idx) ==
    ComparisonFigure(<<ComparisonCell(data, s, 0, frame_idx),
                       ComparisonCell(data, s, 1, frame_idx),
                       ComparisonCell(data, s, 2, frame_idx),
                       ComparisonCell(data, s, 3, frame_idx)>>)

\* ------------------------------------------------------------ navigator

RECURSIVE SortNames(_)
\* sorted(...) on a set of names
SortNames(S) ==
    IF S = {} THEN <<>>
    ELSE LET m == CHOOSE n \in S : \A q \in S \ {n} : StrLess(Chars(n), Chars(q))
         IN  <<m>> \o SortNames(S \ {m})

\* The Python type of d[key], which the representation does not carry ([]
\* and {} are both <<>>): "folders" is a dict of nodes (the top dict also has
\* the list '_root_files'), "node" a dict {'_folders': folders, '_files':
\* list}, "list" a list of records.
ChildKind(kind, key) ==
    CASE kind = "node" /\ key = "_folders"         -> "folders"
      [] kind = "node" /\ key = "_files"           -> "list"
      [] kind = "folders" /\ key = "_root_files"   -> "list"
      [] OTHER                                     -> "node"

\* What a call of render_folder_tree that drew nothing leaves.
NoButtons == [folders |-> {}, files |-> {}, raised |-> FALSE]

\* The buttons of a part of the sidebar followed by those of the next part.
ThenButtons(first, rest) ==
    [folders |-> first.folders \cup rest.folders,
     files   |-> first.files \cup rest.files,
     raised  |-> rest.raised]

RECURSIVE render_folder_tree(_, _, _, _)
RECURSIVE RenderFolders(_, _, _, _, _)
RECURSIVE RenderFoldersAfter(_, _, _, _, _, _)

\* The file loop of render_folder_tree, reached when the folder loop drew
\* `drawn` without raising.
RenderFilesAfter(drawn, tree) ==
    IF drawn.raised THEN drawn
    ELSE ThenButtons(drawn, [folders |-> {},
                             files   |-> Range(DictGet(tree, "_files", <<>>)),
                             raised  |-> FALSE])

\* The buttons render_folder_tree draws for `tree`: the folder buttons (by
\* folder path) and the file buttons, and whether the call raised (then the
\* buttons are those drawn before).  kind is the Python type of `tree`: a
\* list has no get(), which is an AttributeError.
render_folder_tree(tree, kind, path_prefix, expanded) ==
    IF kind = "list" THEN [folders |-> {}, files |-> {}, raised |-> TRUE]
    ELSE RenderFilesAfter(
            RenderFolders(DictGet(tree, "_folders", <<>>), ChildKind(kind, "_folders"),
                          SortNames(DOMAIN DictGet(tree, "_folders", <<>>)),
                          path_prefix, expanded),
            tree)

\* The folder loop from folder_name = Head(names) on: the button of the
\* folder and, if it is expanded, the call for tree['_folders'][folder_name].
RenderFolders(folders, kind, names, path_prefix, expanded) ==
    IF names = <<>> THEN NoButtons
    ELSE RenderFoldersAfter(
            IF (path_prefix \o <<Head(names)>>) \in expanded
            THEN ThenButtons([folders |-> {path_prefix \o <<Head(names)>>},
                              files |-> {}, raised |-> FALSE],
                             render_folder_tree(folders[Head(names)],
                                                ChildKind(kind, Head(names)),
                                                path_prefix \o <<Head(names)>>,
                                                expanded))
            ELSE [folders |-> {path_prefix \o <<Head(names)>>},
                  files |-> {}, raised |-> FALSE],
            folders, kind, Tail(names), path_prefix, expanded)

\* The rest of the folder loop, unless the pass before raised.
RenderFoldersAfter(drawn, folders, kind, names, path_prefix, expanded) ==
    IF drawn.raised THEN drawn
    ELSE ThenButtons(drawn, RenderFolders(folders, kind, names, path_prefix, expanded))

\* render_folder_tree(folder_tree): the call of main, on the top dict
RenderTree(tree, expanded) == render_folder_tree(tree, "folders", <<>>, expanded)

\* The file buttons of the sidebar: the root files, then the tree.
RenderedFiles(tree, expanded) ==
    Range(DictGet(tree, "_root_files", <<>>)) \cup RenderTree(tree, expanded).files

RenderedFolders(tree, expanded) == RenderTree(tree, expanded).folders

\* The sidebar block is left by an exception, which nothing catches.
SidebarRaises(tree, expanded) == RenderTree(tree, expanded).raised

\* next((i for i, f in enumerate(json_files) if f['id'] == selected_file['id']), None)
current_idx(files, sel) ==
    IF \E i \in 1..Len(files) : files[i].id = sel.id
    THEN Some((CHOOSE i \in 1..Len(files) :
                  /\ files[i].id = sel.id
                  /\ \A j \in 1..(i - 1) : files[j].id # sel.id) - 1)
    ELSE None

\* Whether the Prev (delta = -1) or Next (delta = 1) button is drawn and
\* enabled for the session's selection `sel` (None or Some(record)).
NavEnabled(files, sel, delta) ==
    /\ files # <<>>
    /\ sel # None
    /\ current_idx(files, sel[1]) # None
    /\ IF delta < 0 THEN current_idx(files, sel[1])[1] # 0
                    ELSE current_idx(files, sel[1])[1] # Len(files) - 1

SelectRelativeWrap(files, sel, delta) ==
    IF files # <<>> /\ sel # None /\ current_idx(files, sel[1]) # None
    THEN Some(files[((current_idx(files, sel[1])[1] + delta) % Len(files)) + 1])
    ELSE sel

\* The selection after a click on Prev/Next; a disabled or absent button
\* cannot be clicked and leaves the selection alone.
SelectRelative(files, sel, delta) ==
    IF NavEnabled(files, sel, delta)
    THEN Some(files[(current_idx(files, sel[1])[1] + delta) + 1])
    ELSE sel

\* ----------------------------------------------------------- script run

Views == <<"wrist_pose", "joint_states", "finger_0", "finger_1", "finger_2",
           "palm", "all_sensors">>

\* What one tab draws on its own.
RenderView(data, s, v, frame_idx) ==
    CASE v = "wrist_pose"   -> plot_wrist_pose(data, s, frame_idx)
      [] v = "joint_states" -> plot_joint_states(data, s, frame_idx)
      [] v = "all_sensors"  -> IF frame_idx # None
                               THEN plot_all_tactile_comparison(data, s, frame_idx[1])
                               ELSE Unavailable
      [] OTHER              -> plot_tactile_data(data, s, v, frame_idx)

RECURSIVE TabsFrom(_, _, _, _, _)
\* The tabs from the i-th on, drawn in order inside the one try block: the
\* first exception leaves the block, so the later tabs are not drawn.
TabsFrom(data, s, frame_idx, i, left_block) ==
    IF i > Len(Views) THEN <<>>
    ELSE IF left_block
    THEN <<NotRendered>> \o TabsFrom(data, s, frame_idx, i + 1, TRUE)
    ELSE LET d == RenderView(data, s, Views[i], frame_idx)
         IN  <<d>> \o TabsFrom(data, s, frame_idx, i + 1, Raised(d))

RenderTabs(data, s, frame_idx) == TabsFrom(data, s, frame_idx, 1, FALSE)

NoTabs == <<NotRendered, NotRendered, NotRendered, NotRendered, NotRendered,
           NotRendered, NotRendered>>

\* st.slider("Frame Index", 0, num_frames - 1, 0): the upper end
SliderMaxOffByOne(num_frames) == num_frames

SliderMax(num_frames) == num_frames - 1

\* The value the slider returns: the widget keeps its value between runs as
\* long as it is the same widget (same label, range and default), and a new
\* widget starts at its default 0.
SliderValue(sl, max) ==
    IF sl # None /\ sl[1].max = max THEN sl[1].value ELSE 0

Uncached == [cached |-> FALSE, data |-> None]

\* download_file_from_gdrive under st.cache_data: the cached return value,
\* whatever it is, or else one download whose outcome (a decoded document,
\* or None after an exception) is then cached.
download_file_from_gdrive(ch, id, remote_ok) ==
    IF ch[id].cached THEN [data |-> ch[id].data, fetched |-> FALSE, cache |-> ch]
    ELSE LET data == IF remote_ok THEN Some(RemoteContent(id)) ELSE None
         IN  [data |-> data, fetched |-> TRUE,
              cache |-> [ch EXCEPT ![id] = [cached |-> TRUE, data |-> data]]]

Caught(exc, got, frame_idx, sl, tabs) ==
    [stage |-> "error", errors |-> {"Error loading or visualizing data"},
     exc |-> exc, fetched |-> got.fetched, frame_idx |-> frame_idx,
     tabs |-> tabs, cache |-> got.cache, slider |-> sl]

\* The end of the try block, the tabs drawn (or left at an exception).
AfterTabs(got, frame_idx, sl, tabs) ==
    IF \E i \in 1..Len(Views) : Raised(tabs[i])
    THEN Caught((tabs[CHOOSE i \in 1..Len(Views) : Raised(tabs[i])]).exc,
                got, frame_idx, sl, tabs)
    ELSE [stage |-> "rendered", errors |-> {}, exc |-> "", fetched |-> got.fetched,
          frame_idx |-> frame_idx, tabs |-> tabs, cache |-> got.cache,
          slider |-> sl]

\* From the frame slider on: frame_idx is what the slider returned (None in
\* Time Series mode), sl the slider widget this run leaves behind.
AfterSlider(got, data, s, frame_idx, sl) ==
    AfterTabs(got, frame_idx, sl, RenderTabs(data, s, frame_idx))

\* The frame slider (Single Frame mode only) and the data summary, both of
\* which read data[f'{side}_wrist_pose'].
AfterDownload(got, data, s, vm, sl) ==
    IF (s \o "_wrist_pose") \notin DOMAIN data
    THEN Caught("KeyError", got, None, None, NoTabs)
    ELSE IF vm # "Single Frame"
    THEN AfterSlider(got, data, s, None, None)
    ELSE IF SliderMax(Len(data[s \o "_wrist_pose"])) < 0
    THEN Caught("StreamlitAPIException", got, None, None, NoTabs)
    ELSE AfterSlider(got, data, s,
            Some(SliderValue(sl, SliderMax(Len(data[s \o "_wrist_pose"])))),
            Some([max   |-> SliderMax(Len(data[s \o "_wrist_pose"])),
                  value |-> SliderValue(sl, SliderMax(Len(data[s \o "_wrist_pose"])))]))

\* The check of the download's result.
CheckData(got, s, vm, sl) ==
    IF got.data = None
    THEN [stage |-> "load_failed",
          errors |-> {"Failed to load file from Google Drive"}
                        \cup (IF got.fetched THEN {"Error downloading file"} ELSE {}),
          exc |-> "", fetched |-> got.fetched, frame_idx |-> None,
          tabs |-> NoTabs, cache |-> got.cache, slider |-> None]
    ELSE AfterDownload(got, got.data[1], s, vm, sl)

\* The try block of main: download, frame slider, data summary, tabs.
\* sel is the local selected_file: None when it was never assigned.
MainContent(sel, s, vm, sl, ch, remote_ok) ==
    IF sel = None
    THEN Caught("UnboundLocalError", [fetched |-> FALSE, cache |-> ch],
                None, None, NoTabs)
    ELSE CheckData(download_file_from_gdrive(ch, sel[1].id, remote_ok), s, vm, sl)

\* What a run that reached the options leaves behind and shows.
Page(tree, s, vm, m) ==
    [folder_tree |-> tree, side |-> s, viz_mode |-> vm,
     slider |-> m.slider, cache |-> m.cache,
     view |-> [stage |-> m.stage, errors |-> m.errors, exc |-> m.exc,
               fetched |-> m.fetched, frame_idx |-> m.frame_idx,
               tabs |-> m.tabs, options |-> TRUE]]

\* "Select a file above" and return: the options are never drawn, so their
\* widgets are new (at their defaults) when next drawn.
PromptPage(tree, ch) ==
    [folder_tree |-> tree, side |-> "left", viz_mode |-> "Time Series",
     slider |-> None, cache |-> ch,
     view |-> [stage |-> "select_prompt", errors |-> {}, exc |-> "",
               fetched |-> FALSE, frame_idx |-> None, tabs |-> NoTabs,
               options |-> FALSE]]

\* render_folder_tree raised and nothing caught it: the run ends in the
\* sidebar, before the selection gate and the options.  Whether the widgets
\* that were not drawn keep their values after a run that ended so is up to
\* the Streamlit release: keep_widgets is either.
SidebarErrorPage(tree, s, vm, sl, ch, keep_widgets) ==
    [folder_tree |-> tree,
     side |-> IF keep_widgets THEN s ELSE "left",
     viz_mode |-> IF keep_widgets THEN vm ELSE "Time Series",
     slider |-> IF keep_widgets THEN sl ELSE None,
     cache |-> ch,
     view |-> [stage |-> "sidebar_error", errors |-> {}, exc |-> "AttributeError",
               fetched |-> FALSE, frame_idx |-> None, tabs |-> NoTabs,
               options |-> FALSE]]

\* One complete run of main() with working credentials.  The result holds
\* the state the run leaves behind and what it put on the page.  With an
\* empty listing the sidebar block is skipped: no tree, and the local
\* selected_file is never assigned.
Run(files, sel, exp, s, vm, sl, ch, remote_ok, keep_widgets) ==
    IF files = <<>>
    THEN Page(<<>>, s, vm, MainContent(None, s, vm, sl, ch, remote_ok))
    ELSE IF SidebarRaises(build_folder_tree(files), exp)
    THEN SidebarErrorPage(build_folder_tree(files), s, vm, sl, ch, keep_widgets)
    ELSE IF sel = None
    THEN PromptPage(build_folder_tree(files), ch)
    ELSE Page(build_folder_tree(files), s, vm,
              MainContent(sel, s, vm, sl, ch, remote_ok))

\* Whether a run over this listing and expanded set ends in the sidebar.
EndsInSidebar(files, exp) ==
    files # <<>> /\ SidebarRaises(build_folder_tree(files), exp)

\* What the store can answer to the download a run issues: success or an
\* exception.  A run that issues no download has nothing to choose.
RemoteOutcomes(files, sel, exp) ==
    IF files # <<>> /\ sel # None /\ ~cache[sel[1].id].cached
          /\ ~EndsInSidebar(files, exp)
    THEN BOOLEAN ELSE {TRUE}

\* What becomes of the undrawn widgets' values: only a run that ends in the
\* sidebar has the choice.
WidgetOutcomes(files, exp) ==
    IF EndsInSidebar(files, exp) THEN BOOLEAN ELSE {TRUE}

\* The run that follows an interaction which left the session with listing
\* files, selection sel, expanded set exp and widget values s, vm, sl.
RunScript(files, sel, exp, s, vm, sl) ==
    \E remote_ok \in RemoteOutcomes(files, sel, exp),
       keep_widgets \in WidgetOutcomes(files, exp) :
      \E r \in {Run(files, sel, exp, s, vm, sl, cache, remote_ok, keep_widgets)} :
        /\ json_files' = files
        /\ selected_file' = sel
        /\ expanded_folders' = exp
        /\ folder_tree' = r.folder_tree
        /\ side' = r.side
        /\ viz_mode' = r.viz_mode
        /\ slider' = r.slider
        /\ cache' = r.cache
        /\ view' = r.view

\* ------------------------------------------------------------- actions

HarnessIdle == t_data = <<>> /\ t_frame = None /\ t_out = None /\ c_out = None

\* First run of a new session over a folder holding the records S: nothing
\* selected, nothing expanded, nothing cached.
FirstRun(S) ==
    \E r \in {Run(list_json_files_from_gdrive(S), None, {}, "left", "Time Series",
                   None, [id \in FileIds |-> Uncached], TRUE, TRUE)} :
        /\ json_files = list_json_files_from_gdrive(S)
        /\ selected_file = None
        /\ expanded_folders = {}
        /\ folder_tree = r.folder_tree
        /\ side = r.side
        /\ viz_mode = r.viz_mode
        /\ slider = r.slider
        /\ cache = r.cache
        /\ view = r.view

Init ==
    /\ HarnessIdle
    /\ \E S \in Listings : FirstRun(S)

\* The run of the current page reached the selection gate (Prev/Next are
\* drawn there).
GateDrawn == view.stage # "sidebar_error"

\* A click on a file button of the sidebar.
ClickFile ==
    /\ json_files # <<>>
    /\ \E f \in RenderedFiles(folder_tree, expanded_folders) :
          RunScript(json_files, Some(f), expanded_folders, side, viz_mode, slider)
    /\ UNCHANGED harness_vars

ToggleExpandAddOnly(expanded, folder_path) == expanded \cup {folder_path}

\* The body of the folder button: discard if is_expanded, else add.
ToggleExpand(expanded, folder_path) ==
    IF folder_path \in expanded THEN expanded \ {folder_path}
                                ELSE expanded \cup {folder_path}

\* A click on a folder button of the sidebar.
ClickFolder ==
    /\ json_files # <<>>
    /\ \E p \in RenderedFolders(folder_tree, expanded_folders) :
          RunScript(json_files, selected_file, ToggleExpand(expanded_folders, p),
                    side, viz_mode, slider)
    /\ UNCHANGED harness_vars

ClickPrev ==
    /\ GateDrawn
    /\ NavEnabled(json_files, selected_file, -1)
    /\ RunScript(json_files, SelectRelative(json_files, selected_file, -1),
                 expanded_folders, side, viz_mode, slider)
    /\ UNCHANGED harness_vars

ClickNext ==
    /\ GateDrawn
    /\ NavEnabled(json_files, selected_file, 1)
    /\ RunScript(json_files, SelectRelative(json_files, selected_file, 1),
                 expanded_folders, side, viz_mode, slider)
    /\ UNCHANGED harness_vars

SetSide ==
    /\ view.options
    /\ \E s \in Sides \ {side} :
          RunScript(json_files, selected_file, expanded_folders, s, viz_mode, slider)
    /\ UNCHANGED harness_vars

SetMode ==
    /\ view.options
    /\ \E m \in {"Time Series", "Single Frame"} \ {viz_mode} :
          RunScript(json_files, selected_file, expanded_folders, side, m, slider)
    /\ UNCHANGED harness_vars

\* Dragging the frame slider, which offers exactly its range.
SetFrameIndex ==
    /\ slider # None
    /\ \E i \in (0..slider[1].max) \ {slider[1].value} :
          RunScript(json_files, selected_file, expanded_folders, side, viz_mode,
                    Some([max |-> slider[1].max, value |-> i]))
    /\ UNCHANGED harness_vars

\* The user re-runs the script without touching a widget.
Rerun ==
    /\ RunScript(json_files, selected_file, expanded_folders, side, viz_mode, slider)
    /\ UNCHANGED harness_vars

\* A run after the cached listing timed out (ttl=3600): the folder is listed
\* again, and a file has been added to it or removed from it meanwhile.
Relist ==
    /\ \E S \in Listings :
          /\ \E rec \in AllRecords :
                \/ rec \notin Range(json_files) /\ S = Range(json_files) \cup {rec}
                \/ rec \in Range(json_files) /\ S = Range(json_files) \ {rec}
          /\ RunScript(list_json_files_from_gdrive(S), selected_file, expanded_folders,
                    side, viz_mode, slider)
    /\ UNCHANGED harness_vars

\* A cached download times out (ttl=3600).
ExpireDownload ==
    /\ \E id \in FileIds :
          /\ cache[id].cached
          /\ cache' = [cache EXCEPT ![id] = Uncached]
    /\ UNCHANGED <<json_files, folder_tree, selected_file, expanded_folders,
                   side, viz_mode, slider, view>>
    /\ UNCHANGED harness_vars

\* ClickFolder is no disjunct: render_folder_tree(folder_tree) looks for the
\* key '_folders' in the top dict, whose keys are the top-level folder names,
\* so with ordinary folder names no folder button is ever drawn.  It is one
\* of NextFolders below.
Next ==
    \/ ClickFile
    \/ ClickPrev
    \/ ClickNext
    \/ SetSide
    \/ SetMode
    \/ SetFrameIndex
    \/ Rerun
    \/ Relist
    \/ ExpireDownload

Spec == Init /\ [][Next]_vars

\* ------------------------------------- a folder that is named '_folders'

\* A Drive folder whose one subfolder is named '_folders': of the top dict
\* {'_folders': node}, render_folder_tree takes the node for the dict of the
\* top-level folders and its keys '_files' and '_folders' for folder names,
\* so here folder buttons are drawn.
FolderNamedRecords ==
    { FileRecord("f1", <<"r.json">>),
      FileRecord("f3", <<"_folders", "y.json">>) }

InitFolders ==
    /\ HarnessIdle
    /\ \E S \in SUBSET FolderNamedRecords : FirstRun(S)

NextFolders ==
    \/ ClickFolder
    \/ ClickFile
    \/ ClickPrev
    \/ ClickNext
    \/ SetSide
    \/ SetMode
    \/ SetFrameIndex
    \/ Rerun
    \/ ExpireDownload

SpecFolders == InitFolders /\ [][NextFolders]_vars

\* ------------------------------------- the tactile views on their own

\* The tactile fields the render functions are applied to: every site takes
\* every shape among  [] , [F,0], [F,1], [F,2] and [1,2].
TactileArrays ==
    { Mat(0, 0, 0), Mat(NumFrames, 0, 0), Mat(NumFrames, 1, 300),
      Mat(NumFrames, 2, 300), Mat(1, 2, 700) }

TactileKeys ==
    {"left_finger_0_tactile", "left_finger_1_tactile", "left_finger_2_tactile",
     "left_palm_tactile"}

\* The frame arguments: none, every index of an F-frame array, and one more.
FrameArgs == {None} \cup {Some(i) : i \in 0..NumFrames}

\* The session the render functions are applied beside: the first run over
\* an empty listing, left alone.
SessionIdle == FirstRun({})

InitRender ==
    /\ SessionIdle
    /\ t_data \in [TactileKeys -> TactileArrays]
    /\ t_frame \in FrameArgs
    /\ t_out = None
    /\ c_out = None

\* plot_tactile_data(data, 'left', sensor, frame_idx)
CallPlotTactile ==
    /\ \E sensor \in Range(Sensors) :
          t_out' = Some([sensor |-> sensor,
                         result |-> plot_tactile_data(t_data, "left", sensor, t_frame)])
    /\ UNCHANGED <<t_data, t_frame, c_out>>
    /\ UNCHANGED nav_vars

\* plot_all_tactile_comparison(data, 'left', frame_idx), which main calls
\* only with a frame index
CallPlotAll ==
    /\ t_frame # None
    /\ c_out' = Some(plot_all_tactile_comparison(t_data, "left", t_frame[1]))
    /\ UNCHANGED <<t_data, t_frame, t_out>>
    /\ UNCHANGED nav_vars

NextRender ==
    \/ CallPlotTactile
    \/ CallPlotAll

SpecRender == InitRender /\ [][NextRender]_vars

\* ---------------------------------------------------------------- claims

RECURSIVE NodeAt(_, _)
\* The node reached from a dict of nodes by following the folder segments
\* segs (at least one); None when a segment is absent.
NodeAt(nodes, segs) ==
    IF Head(segs) \notin DOMAIN nodes THEN None
    ELSE IF Len(segs) = 1 THEN Some(nodes[Head(segs)])
    ELSE NodeAt(nodes[Head(segs)]._folders, Tail(segs))

\* The folder children of the root: every key of folder_tree but '_root_files'.
RootFolders(tree) == [k \in (DOMAIN tree) \ {"_root_files"} |-> tree[k]]

Listed(sel) == sel # None /\ sel[1] \in Range(json_files)

UniqueIds(files) ==
    \A i, j \in 1..Len(files) : files[i].id = files[j].id => i = j

PathLess(p, q) == StrLess(JoinPath(p.path), JoinPath(q.path))

\* The document the run of the current page was given.
PageData == RemoteContent(selected_file[1].id)

\* The run of the current page got a document and went on to draw from it.
PageLoaded ==
    /\ json_files # <<>>
    /\ selected_file # None
    /\ view.stage \in {"rendered", "error"}

\* C1: every record with a folder segment is held in the files list of the
\* node reached from the root by exactly its folder segments.
C1_FileUnderItsFolder ==
    \A i \in 1..Len(json_files) :
        Len(json_files[i].path) > 1 =>
            /\ NodeAt(RootFolders(folder_tree), Front(json_files[i].path)) # None
            /\ json_files[i] \in
                 Range(NodeAt(RootFolders(folder_tree),
                              Front(json_files[i].path))[1]._files)

\* C2 as stated: Prev/Next never moves the selection to a file of another
\* folder than the selected one.
C2_PrevNextStaysInFolder ==
    [][(ClickPrev \/ ClickNext) =>
          Front(selected_file'[1].path) = Front(selected_file[1].path)]_vars

\* The first listing entry that carries the id of the selection.
C2_Current ==
    CHOOSE r \in Range(json_files) :
        /\ r.id = selected_file[1].id
        /\ \A q \in Range(json_files) : q.id = r.id /\ q # r => PathLess(r, q)

\* C2 as amended: Prev/Next moves the selection to the listing entry whose
\* path is the immediate predecessor/successor, in the order of the path
\* strings of all listed files, of the entry carrying the selected id.
C2_PrevNextGlobalOrder ==
    [][/\ ClickNext =>
            /\ selected_file'[1] \in Range(json_files)
            /\ PathLess(C2_Current, selected_file'[1])
            /\ ~\E q \in Range(json_files) :
                   PathLess(C2_Current, q) /\ PathLess(q, selected_file'[1])
       /\ ClickPrev =>
            /\ selected_file'[1] \in Range(json_files)
            /\ PathLess(selected_file'[1], C2_Current)
            /\ ~\E q \in Range(json_files) :
                   PathLess(selected_file'[1], q) /\ PathLess(q, C2_Current)]_vars

\* A file inside a folder is selected while the listing also holds a file of
\* another folder: Prev/Next brought the selection there.
C2_Witness ==
    /\ Listed(selected_file)
    /\ Len(selected_file[1].path) > 1
    /\ \E q \in Range(json_files) : Front(q.path) # Front(selected_file[1].path)

\* C3: with unique ids and a listed selection, Next then Prev selects the
\* original file again, and Next on the last file (Prev on the first) leaves
\* the selection as it is.
C3_NextThenPrev ==
    (Listed(selected_file) /\ UniqueIds(json_files)) =>
        /\ IF selected_file[1] = json_files[Len(json_files)]
           THEN SelectRelative(json_files, selected_file, 1) = selected_file
           ELSE /\ SelectRelative(json_files, selected_file, 1) # selected_file
                /\ SelectRelative(json_files,
                       SelectRelative(json_files, selected_file, 1), -1) = selected_file
        /\ selected_file[1] = json_files[1] =>
               SelectRelative(json_files, selected_file, -1) = selected_file

\* The middle one of three files with unique ids is selected, which only
\* Prev/Next can bring about (the one file button drawn is that of the last).
C3_Witness ==
    /\ Listed(selected_file)
    /\ UniqueIds(json_files)
    /\ Len(json_files) = 3
    /\ selected_file[1] = json_files[2]

\* C4: when drawing one view raises, every view whose own drawing does not
\* raise is still drawn in that run.
C4_SiblingViewsIndependent ==
    (PageLoaded /\ \E i \in 1..Len(Views) : Raised(view.tabs[i])) =>
        \A j \in 1..Len(Views) :
            ~Raised(RenderView(PageData, side, Views[j], view.frame_idx)) =>
                view.tabs[j] = RenderView(PageData, side, Views[j], view.frame_idx)

\* C5: a run that selects, or selects again, a file whose download failed
\* before issues a new download.
C5_FailedDownloadRetried ==
    [][((ClickFile \/ ClickPrev \/ ClickNext \/ Rerun)
          /\ json_files' # <<>>
          /\ selected_file' # None
          /\ cache[selected_file'[1].id] = [cached |-> TRUE, data |-> None])
        => view'.fetched]_vars

ViewKey(s, v) ==
    CASE v = "wrist_pose"   -> s \o "_wrist_pose"
      [] v = "joint_states" -> s \o "_joint_states"
      [] v = "all_sensors"  -> s \o "_wrist_pose"
      [] OTHER              -> s \o "_" \o v \o "_tactile"

\* C7: a field whose frame count differs from that of the wrist pose is
\* reported and no view is drawn from it.
C7_FrameCountMismatchReported ==
    (PageLoaded /\ (side \o "_wrist_pose") \in DOMAIN PageData) =>
        \A i \in 1..Len(Views) :
            (/\ ViewKey(side, Views[i]) \in DOMAIN PageData
             /\ Len(PageData[ViewKey(side, Views[i])])
                    # Len(PageData[side \o "_wrist_pose"]))
            => /\ view.tabs[i].kind \in {"raise", "not_rendered"}
               /\ view.errors # {}

\* Sensor count of a tactile array ([] has none).
SensorCount(tactile) == IF Len(tactile) = 0 THEN 0 ELSE Len(tactile[1])

\* C8: a tactile array without sensors is answered "unavailable" whatever
\* the frame argument; one with S > 0 sensors and a valid frame index gives
\* the single-frame heatmap over the S values of that frame.
C8_TactileUnavailableOrHeatmap ==
    t_out # None =>
        LET tactile == t_data["left_" \o t_out[1].sensor \o "_tactile"]
            result == t_out[1].result
        IN  /\ SensorCount(tactile) = 0 => result = Unavailable
            /\ (SensorCount(tactile) > 0 /\ t_frame # None /\ t_frame[1] < Len(tactile)) =>
                  /\ result.kind = "Heatmap1D"
                  /\ result.z = tactile[t_frame[1] + 1]
                  /\ Len(result.z) = SensorCount(tactile)

\* The view was asked for a frame of an array of shape [F,0], F > 0.
C8_Witness ==
    /\ t_out # None
    /\ t_frame # None
    /\ Len(t_data["left_" \o t_out[1].sensor \o "_tactile"]) > 0
    /\ SensorCount(t_data["left_" \o t_out[1].sensor \o "_tactile"]) = 0
    /\ t_out[1].result = Unavailable

\* C9: when at least one site has data, exactly one cell of the comparison
\* carries the color-scale flag, and it is a heatmap cell.
C9_ExactlyOneLegend ==
    (/\ c_out # None
     /\ c_out[1].kind = "CompositeGrid"
     /\ \E k \in TactileKeys : SensorCount(t_data[k]) > 0)
    => /\ Cardinality({i \in 1..4 : c_out[1].cells[i].showscale}) = 1
       /\ \A i \in 1..4 : c_out[1].cells[i].showscale =>
                             c_out[1].cells[i].kind = "Heatmap1D"

\* C10: with an empty listing nothing is selected, downloaded or drawn and
\* no error is reported.
C10_EmptyListingNoError ==
    json_files = <<>> =>
        /\ folder_tree = <<>>
        /\ selected_file = None
        /\ ~view.fetched
        /\ view.tabs = NoTabs
        /\ view.errors = {}

RECURSIVE CountIn(_)
\* The number of file entries held in the files lists of a dict of nodes and
\* of all the nodes below them.
CountIn(nodes) ==
    IF DOMAIN nodes = {} THEN 0
    ELSE LET k == CHOOSE x \in DOMAIN nodes : TRUE
         IN  Len(nodes[k]._files) + CountIn(nodes[k]._folders)
                + CountIn(Without(nodes, {k}))

\* The file entries of the whole tree: root files and every node's files.
CountFiles(tree) ==
    Len(DictGet(tree, "_root_files", <<>>)) + CountIn(RootFolders(tree))

RECURSIVE HeldIn(_, _)
\* How many entries of the files lists of a dict of nodes, and of the nodes
\* below them, are the record rec.
HeldIn(nodes, rec) ==
    IF DOMAIN nodes = {} THEN 0
    ELSE LET k == CHOOSE x \in DOMAIN nodes : TRUE
         IN  Cardinality({i \in 1..Len(nodes[k]._files) : nodes[k]._files[i] = rec})
                + HeldIn(nodes[k]._folders, rec)
                + HeldIn(Without(nodes, {k}), rec)

Held(tree, rec) ==
    Cardinality({i \in 1..Len(DictGet(tree, "_root_files", <<>>)) :
                    tree["_root_files"][i] = rec})
        + HeldIn(RootFolders(tree), rec)

\* C11: for a listing with unique ids (paths are unique in every listing),
\* the built tree holds as many file entries, over the root files and the
\* files lists of all folder nodes, as the listing has records, and every
\* listed record is held exactly once.
C11_TreeHoldsEveryRecordOnce ==
    UniqueIds(json_files) =>
        /\ CountFiles(folder_tree) = Len(json_files)
        /\ \A rec \in Range(json_files) : Held(folder_tree, rec) = 1

\* A tree built from a root file and two files of sibling folders.
C11_Witness ==
    /\ UniqueIds(json_files)
    /\ Len(json_files) = 3
    /\ \E i, j \in 1..3 : /\ Len(json_files[i].path) > 1
                           /\ Len(json_files[j].path) > 1
                           /\ Front(json_files[i].path) # Front(json_files[j].path)
    /\ CountFiles(folder_tree) = 3

\* C12: a click on a folder button flips the membership of that folder's
\* path in the expanded set and of no other path (the folders below it
\* included), leaves the selected file as it is, and leaves the button
\* drawn, where a second click restores the expanded set.
C12_ToggleExpandFlipsOnePath ==
    [][ClickFolder =>
          \E p \in RenderedFolders(folder_tree, expanded_folders) :
              /\ (p \in expanded_folders') = (p \notin expanded_folders)
              /\ \A q \in (expanded_folders \cup expanded_folders') \ {p} :
                     (q \in expanded_folders') = (q \in expanded_folders)
              /\ selected_file' = selected_file
              /\ p \in RenderedFolders(folder_tree', expanded_folders')
              /\ ToggleExpand(expanded_folders', p) = expanded_folders]_vars

\* A folder was expanded below an expanded folder, and the upper one was
\* then collapsed, with a file selected.
C12_Witness ==
    /\ selected_file # None
    /\ <<"_folders", "_folders">> \in expanded_folders
    /\ <<"_folders">> \notin expanded_folders

\* The folder paths of a record: the non-empty prefixes of its folder segments.
FolderPaths(rec) == {SubSeq(rec.path, 1, n) : n \in 1..(Len(rec.path) - 1)}

\* C13: every listed file can be reached by clicks on the drawn tree: each
\* of its folders is drawn as a button once the folders above it are
\* expanded (a top-level folder always), and the file is drawn as a button
\* once all its folders are expanded (a root file always).
C13_EveryFileReachable ==
    \A rec \in Range(json_files) :
        /\ \A fp \in FolderPaths(rec) :
               (\A up \in FolderPaths(rec) : Len(up) < Len(fp) => up \in expanded_folders)
                  => fp \in RenderedFolders(folder_tree, expanded_folders)
        /\ (\A fp \in FolderPaths(rec) : fp \in expanded_folders)
               => rec \in RenderedFiles(folder_tree, expanded_folders)

====
